---- MODULE Spec2Model ----
(***************************************************************************)
(* TileManager of glosm (libglosm-client/src/TileManager.cc): a quadtree   *)
(* of tiles, a load queue filled by LoadLocality, a loading thread that    *)
(* drains the queue and places tiles, a generational garbage collector     *)
(* and a render traversal.                                                 *)
(*                                                                         *)
(* A node is identified by the sequence of child slots (0..3) that leads   *)
(* to it from root_ (the empty sequence is root_): the pointer             *)
(* node->childs[i] is the node at Append(path, i), and it is NULL exactly  *)
(* when that path is not in DOMAIN tree.                                   *)
(*                                                                         *)
(* Lengths are measured in half leaf tiles: a tile of the hires level has  *)
(* side 2, so that a viewer can stand in the middle of a tile.             *)
(***************************************************************************)
EXTENDS Integers, Sequences, FiniteSets, TLC

\* ------------------------------------------------------------------ bounds

\* hires_level_ of the concurrent specification (the code sets 13)
HiresLevel == 2
\* hires_range_ of the concurrent specification, in half leaf tiles
HiresRange == 1
\* GarbageCollect is not called once generation_ has reached MaxGen
MaxGen == 2
\* a SYNC LoadLocality (which does not clear queue_) is not called once
\* queue_ holds MaxQueue tasks
MaxQueue == 1

\* the viewer positions LoadLocality and Render are called with
Viewers == {<<1, 1>>, <<3, 1>>}

\* hires_level_, hires_range_ and the viewer positions of the specification
\* that fills the queue beyond its cap; there the loading thread takes no
\* task once CapLoads tiles are resident
CapLevel == 4
CapRange == 23
CapLoads == 2
CapViewers == {<<31, 31>>, <<-20, 1>>}

\* in the specification of repeated loads, a SYNC LoadLocality is not called
\* once queue_ holds DupQueue tasks, and GarbageCollect is not called once
\* generation_ has reached DupGen
DupQueue == 2
DupGen == 1

\* the cap of RecLoadTiles on info.queue_size
QueueCap == 100

\* ------------------------------------------------------------- value types

\* TileId(-1, -1, -1): nothing is being loaded
NoTileId == <<-1, -1, -1>>

\* node->tile == NULL
NoTile == <<>>

\* the tile SpawnTile(bbox) builds
SpawnTile(bbox) == <<bbox>>

TileId(level, x, y) == <<level, x, y>>

RECURSIVE Pow2(_)
Pow2(n) == IF n <= 0 THEN 1 ELSE 2 * Pow2(n - 1)

\* BBoxi::ForGeoTile(level, x, y): the box of tile (level, x, y); the four
\* tiles (level+1, 2x..2x+1, 2y..2y+1) tile it exactly.  hl is the level
\* whose tiles have side 2.
ForGeoTile(hl, level, x, y) ==
    LET side == 2 * Pow2(hl - level)
    IN  [left |-> x * side, right |-> (x + 1) * side,
         bottom |-> y * side, top |-> (y + 1) * side,
         level |-> level, x |-> x, y |-> y]

\* ApproxDistanceSquare(bbox, pos.Flattened()): squared distance from the
\* point to the closest point of the box, 0 inside the box
ApproxDistanceSquare(bbox, pos) ==
    LET dx == IF pos[1] < bbox.left THEN bbox.left - pos[1]
              ELSE IF pos[1] > bbox.right THEN pos[1] - bbox.right ELSE 0
        dy == IF pos[2] < bbox.bottom THEN bbox.bottom - pos[2]
              ELSE IF pos[2] > bbox.top THEN pos[2] - bbox.top ELSE 0
    IN  dx * dx + dy * dy

\* a C++ argument is evaluated once, before the call: F applied to the value
\* of e
ByValue(e, F(_)) == CHOOSE r \in {F(v) : v \in {e}} : TRUE

\* QuadNode(): no tile, no childs
NewQuadNode(bbox, gen) == [generation |-> gen, tile |-> NoTile, bbox |-> bbox]

TileTask(id, bbox) == [id |-> id, bbox |-> bbox]

\* ------------------------------------------------------------------- state

VARIABLES
    tree,             \* root_ and the nodes reachable from it: path -> QuadNode
    generation_,      \* the generation counter
    queue_,           \* the load queue, front first
    loading_,         \* the TileId being loaded, or NoTileId
    thread_die_flag_, \* set by the destructor
    tiles_mutex_,     \* owner of the tree lock: "none", "consumer", "worker"
    queue_mutex_,     \* owner of the queue lock
    hires_level_,     \* level of the tiles that are loaded
    hires_range_,     \* nodes farther than this are not visited
    c_pc,             \* where the consumer thread is
    c_viewer,         \* viewer position of the consumer's current call
    c_flags,          \* flags of the consumer's current LoadLocality
    info,             \* RecLoadTilesInfo of the current walk
    c_cands,          \* leaves of a SYNC walk whose admission is still to run
    w_pc,             \* where the loading thread is
    w_task,           \* the task the loading thread took from the queue
    w_tile,           \* the tile SpawnTile returned
    walk_log,         \* admission decisions of the current walk, in order
    rendered,         \* tiles whose Render() the last Render call invoked
    gc_streak,        \* GarbageCollect calls since the last walk
    inflight_gc,      \* a node on the path of loading_ was collected since the pop
    place_result,     \* what the last RecPlaceTile did with its tile
    gc_evicted,       \* the nodes the current GarbageCollect call destroyed
    d_midload,        \* the destructor started while a load was in flight
    touched_last,     \* the nodes the most recent walk stamped
    touched_since     \* the nodes walks stamped since the last GarbageCollect

vars == <<tree, generation_, queue_, loading_, thread_die_flag_, tiles_mutex_,
          queue_mutex_, hires_level_, hires_range_, c_pc, c_viewer, c_flags,
          info, c_cands, w_pc, w_task, w_tile, walk_log, rendered, gc_streak,
          inflight_gc, place_result, gc_evicted, d_midload, touched_last,
          touched_since>>

\* the loading thread has no task
NoTask == [id |-> NoTileId, bbox |-> <<>>]

NoInfo == [closest_distance |-> 0, queue_size |-> 0]

\* values an uninitialized info.closest_distance can have
UninitDistances == {0, 1, 1000}

\* ---------------------------------------------------------- RecLoadTiles

\* a walk that creates the absent node first and tests its range afterwards
RECURSIVE RecLoadTilesCreatingFirst(_, _, _, _, _)
RecLoadTilesCreatingFirst(st0, p, level, x, y) ==
    ByValue(st0, LAMBDA st :
    LET present == p \in DOMAIN st.tree
        bbox == IF present THEN st.tree[p].bbox
                ELSE ForGeoTile(hires_level_, level, x, y)
        thisdist == ApproxDistanceSquare(bbox, c_viewer)
        t0 == IF present THEN st.tree
              ELSE st.tree @@ (p :> NewQuadNode(bbox, -1))
    IN  IF thisdist > hires_range_ * hires_range_
        THEN [st EXCEPT !.tree = t0]
        ELSE
          LET t1 == [t0 EXCEPT ![p].generation = generation_]
              s1 == [st EXCEPT !.tree = t1]
          IN  IF level = hires_level_
              THEN IF t1[p].tile # NoTile
                   THEN s1
                   ELSE [s1 EXCEPT !.cands = Append(@,
                            [id |-> TileId(level, x, y), bbox |-> bbox,
                             dist |-> thisdist])]
              ELSE
                ByValue(RecLoadTilesCreatingFirst(s1, Append(p, 0), level + 1,
                                     x * 2, y * 2), LAMBDA c0 :
                ByValue(RecLoadTilesCreatingFirst(c0, Append(p, 1), level + 1,
                                     x * 2 + 1, y * 2), LAMBDA c1 :
                ByValue(RecLoadTilesCreatingFirst(c1, Append(p, 2), level + 1,
                                     x * 2, y * 2 + 1), LAMBDA c2 :
                RecLoadTilesCreatingFirst(c2, Append(p, 3), level + 1,
                             x * 2 + 1, y * 2 + 1)))))

\* RecLoadTiles up to the admission of a leaf: range check, node creation,
\* generation stamp, tile check and recursion.  st.tree is the tree and
\* st.cands the leaves that reached the admission step, in visiting order.
RECURSIVE RecLoadTiles(_, _, _, _, _)
RecLoadTiles(st0, p, level, x, y) ==
    ByValue(st0, LAMBDA st :
    LET present == p \in DOMAIN st.tree
        bbox == IF present THEN st.tree[p].bbox
                ELSE ForGeoTile(hires_level_, level, x, y)
        thisdist == ApproxDistanceSquare(bbox, c_viewer)
    IN  IF thisdist > hires_range_ * hires_range_
        THEN st
        ELSE
          LET t1 == IF present
                    THEN [st.tree EXCEPT ![p].generation = generation_]
                    ELSE st.tree @@ (p :> NewQuadNode(bbox, generation_))
              s1 == [st EXCEPT !.tree = t1]
          IN  IF level = hires_level_
              THEN IF t1[p].tile # NoTile
                   THEN s1
                   ELSE [s1 EXCEPT !.cands = Append(@,
                            [id |-> TileId(level, x, y), bbox |-> bbox,
                             dist |-> thisdist])]
              ELSE
                ByValue(RecLoadTiles(s1, Append(p, 0), level + 1,
                                     x * 2, y * 2), LAMBDA c0 :
                ByValue(RecLoadTiles(c0, Append(p, 1), level + 1,
                                     x * 2 + 1, y * 2), LAMBDA c1 :
                ByValue(RecLoadTiles(c1, Append(p, 2), level + 1,
                                     x * 2, y * 2 + 1), LAMBDA c2 :
                RecLoadTiles(c2, Append(p, 3), level + 1,
                             x * 2 + 1, y * 2 + 1)))))

\* Admit with a candidate as close as the closest one also pushed to the front
AdmitNotStrict(aq, c, loading) ==
    LET entry(where) == [id |-> c.id, dist |-> c.dist, where |-> where,
                         closest |-> aq.info.closest_distance,
                         size |-> aq.info.queue_size,
                         empty |-> aq.queue = <<>>]
        task == TileTask(c.id, c.bbox)
    IN  IF loading = c.id
        THEN [aq EXCEPT !.log = Append(@, entry("loading"))]
        ELSE IF aq.queue = <<>> \/ c.dist <= aq.info.closest_distance
        THEN [queue |-> <<task>> \o aq.queue,
              info |-> [closest_distance |-> c.dist,
                        queue_size |-> aq.info.queue_size + 1],
              log |-> Append(aq.log, entry("front"))]
        ELSE IF aq.info.queue_size < QueueCap
        THEN [queue |-> Append(aq.queue, task),
              info |-> [aq.info EXCEPT !.queue_size = @ + 1],
              log |-> Append(aq.log, entry("back"))]
        ELSE [aq EXCEPT !.log = Append(@, entry("dropped"))]

\* Admit with the cap tested after the push instead of before it
AdmitCapOffByOne(aq, c, loading) ==
    LET entry(where) == [id |-> c.id, dist |-> c.dist, where |-> where,
                         closest |-> aq.info.closest_distance,
                         size |-> aq.info.queue_size,
                         empty |-> aq.queue = <<>>]
        task == TileTask(c.id, c.bbox)
    IN  IF loading = c.id
        THEN [aq EXCEPT !.log = Append(@, entry("loading"))]
        ELSE IF aq.queue = <<>> \/ c.dist < aq.info.closest_distance
        THEN [queue |-> <<task>> \o aq.queue,
              info |-> [closest_distance |-> c.dist,
                        queue_size |-> aq.info.queue_size + 1],
              log |-> Append(aq.log, entry("front"))]
        ELSE IF aq.info.queue_size <= QueueCap
        THEN [queue |-> Append(aq.queue, task),
              info |-> [aq.info EXCEPT !.queue_size = @ + 1],
              log |-> Append(aq.log, entry("back"))]
        ELSE [aq EXCEPT !.log = Append(@, entry("dropped"))]

\* Admit without the test against loading_
AdmitIgnoringLoading(aq, c, loading) ==
    LET entry(where) == [id |-> c.id, dist |-> c.dist, where |-> where,
                         closest |-> aq.info.closest_distance,
                         size |-> aq.info.queue_size,
                         empty |-> aq.queue = <<>>]
        task == TileTask(c.id, c.bbox)
    IN  IF aq.queue = <<>> \/ c.dist < aq.info.closest_distance
        THEN [queue |-> <<task>> \o aq.queue,
              info |-> [closest_distance |-> c.dist,
                        queue_size |-> aq.info.queue_size + 1],
              log |-> Append(aq.log, entry("front"))]
        ELSE IF aq.info.queue_size < QueueCap
        THEN [queue |-> Append(aq.queue, task),
              info |-> [aq.info EXCEPT !.queue_size = @ + 1],
              log |-> Append(aq.log, entry("back"))]
        ELSE [aq EXCEPT !.log = Append(@, entry("dropped"))]

\* Admit with a push to the front that leaves info.closest_distance as it is
AdmitKeepingClosest(aq, c, loading) ==
    LET entry(where) == [id |-> c.id, dist |-> c.dist, where |-> where,
                         closest |-> aq.info.closest_distance,
                         size |-> aq.info.queue_size,
                         empty |-> aq.queue = <<>>]
        task == TileTask(c.id, c.bbox)
    IN  IF loading = c.id
        THEN [aq EXCEPT !.log = Append(@, entry("loading"))]
        ELSE IF aq.queue = <<>>
        THEN [queue |-> <<task>> \o aq.queue,
              info |-> [closest_distance |-> c.dist,
                        queue_size |-> aq.info.queue_size + 1],
              log |-> Append(aq.log, entry("front"))]
        ELSE IF c.dist < aq.info.closest_distance
        THEN [queue |-> <<task>> \o aq.queue,
              info |-> [aq.info EXCEPT !.queue_size = @ + 1],
              log |-> Append(aq.log, entry("front"))]
        ELSE IF aq.info.queue_size < QueueCap
        THEN [queue |-> Append(aq.queue, task),
              info |-> [aq.info EXCEPT !.queue_size = @ + 1],
              log |-> Append(aq.log, entry("back"))]
        ELSE [aq EXCEPT !.log = Append(@, entry("dropped"))]

\* the admission step of RecLoadTiles for the leaf c: aq.queue is queue_,
\* aq.info the walk's RecLoadTilesInfo, aq.log the decisions taken so far
Admit(aq0, c, loading) ==
    ByValue(aq0, LAMBDA aq :
    LET entry(where) == [id |-> c.id, dist |-> c.dist, where |-> where,
                         closest |-> aq.info.closest_distance,
                         size |-> aq.info.queue_size,
                         empty |-> aq.queue = <<>>]
        task == TileTask(c.id, c.bbox)
    IN  IF loading = c.id
        THEN [aq EXCEPT !.log = Append(@, entry("loading"))]
        ELSE IF aq.queue = <<>>
        THEN [queue |-> <<task>> \o aq.queue,
              info |-> [closest_distance |-> c.dist,
                        queue_size |-> aq.info.queue_size + 1],
              log |-> Append(aq.log, entry("front"))]
        ELSE IF c.dist < aq.info.closest_distance
        THEN [queue |-> <<task>> \o aq.queue,
              info |-> [closest_distance |-> c.dist,
                        queue_size |-> aq.info.queue_size + 1],
              log |-> Append(aq.log, entry("front"))]
        ELSE IF aq.info.queue_size < QueueCap
        THEN [queue |-> Append(aq.queue, task),
              info |-> [aq.info EXCEPT !.queue_size = @ + 1],
              log |-> Append(aq.log, entry("back"))]
        ELSE [aq EXCEPT !.log = Append(@, entry("dropped"))])

\* the admission steps of the leaves cands[lo..hi] of a walk, in visiting
\* order (the first half, then the second half)
RECURSIVE AdmitAll(_, _, _, _, _)
AdmitAll(aq, cands, lo, hi, loading) ==
    IF lo > hi THEN aq
    ELSE IF lo = hi THEN Admit(aq, cands[lo], loading)
    ELSE LET mid == (lo + hi) \div 2
         IN  ByValue(AdmitAll(aq, cands, lo, mid, loading), LAMBDA half :
                     AdmitAll(half, cands, mid + 1, hi, loading))

\* ---------------------------------------------------------- RecPlaceTile

\* the slots RecLoadTiles descends through to reach tile (level, x, y)
WalkPath(level, x, y) ==
    [k \in 1..level |->
        ((x \div Pow2(level - k)) % 2) + 2 * ((y \div Pow2(level - k)) % 2)]

\* !!(v & mask) for a mask with one bit set
Bit(v, mask) == (v \div mask) % 2

\* a placement that creates the node of the tile when it is missing
RecPlaceTileCreating(t, p, tile, level, x, y) ==
    LET target == p \o WalkPath(level, x, y)
        made == [q \in {SubSeq(target, 1, k) : k \in 0..Len(target)} \ DOMAIN t
                   |-> NewQuadNode(ForGeoTile(level, 0, 0, 0), 0)]
        t1 == t @@ made
    IN  IF t1[target].tile # NoTile
        THEN [tree |-> t, result |-> "duplicate"]
        ELSE [tree |-> [t1 EXCEPT ![target].tile = tile], result |-> "placed"]

\* a placement that attaches its tile whether or not the node holds one
RECURSIVE RecPlaceTileOverwriting(_, _, _, _, _, _)
RecPlaceTileOverwriting(t, p, tile, level, x, y) ==
    IF p \notin DOMAIN t
    THEN [tree |-> t, result |-> "absent"]
    ELSE IF level = 0
    THEN [tree |-> [t EXCEPT ![p].tile = tile], result |-> "placed"]
    ELSE LET mask == Pow2(level - 1)
             nchild == 2 * Bit(y, mask) + Bit(x, mask)
         IN  RecPlaceTileOverwriting(t, Append(p, nchild), tile, level - 1,
                                     x, y)

\* a placement that takes the bit of x for the row and the bit of y for the
\* column
RECURSIVE RecPlaceTileSwapped(_, _, _, _, _, _)
RecPlaceTileSwapped(t, p, tile, level, x, y) ==
    IF p \notin DOMAIN t
    THEN [tree |-> t, result |-> "absent"]
    ELSE IF level = 0
    THEN IF t[p].tile # NoTile
         THEN [tree |-> t, result |-> "duplicate"]
         ELSE [tree |-> [t EXCEPT ![p].tile = tile], result |-> "placed"]
    ELSE LET mask == Pow2(level - 1)
             nchild == 2 * Bit(x, mask) + Bit(y, mask)
         IN  RecPlaceTileSwapped(t, Append(p, nchild), tile, level - 1, x, y)

\* RecPlaceTile(node at p, tile, level, x, y): the tree afterwards and what
\* happened to the tile
RECURSIVE RecPlaceTile(_, _, _, _, _, _)
RecPlaceTile(t, p, tile, level, x, y) ==
    IF p \notin DOMAIN t
    THEN [tree |-> t, result |-> "absent"]
    ELSE IF level = 0
    THEN IF t[p].tile # NoTile
         THEN [tree |-> t, result |-> "duplicate"]
         ELSE [tree |-> [t EXCEPT ![p].tile = tile], result |-> "placed"]
    ELSE LET mask == Pow2(level - 1)
             nchild == 2 * Bit(y, mask) + Bit(x, mask)
         IN  RecPlaceTile(t, Append(p, nchild), tile, level - 1, x, y)

\* ------------------------------------------- RecDestroyTiles, collection

Without(t0, p) == ByValue(t0, LAMBDA t : [q \in DOMAIN t \ {p} |-> t[q]])

\* RecDestroyTiles(node at p): the tile of p and every node below p are
\* deleted; p itself is left to the caller
RECURSIVE RecDestroyTiles(_, _)
RECURSIVE DestroyChilds(_, _, _)
RecDestroyTiles(t0, p) ==
    ByValue(t0, LAMBDA t :
    IF p \notin DOMAIN t THEN t
    ELSE DestroyChilds([t EXCEPT ![p].tile = NoTile], p, 0))

\* the loop of RecDestroyTiles from child slot i on
DestroyChilds(t0, p, i) ==
    ByValue(t0, LAMBDA t :
    IF i > 3 THEN t
    ELSE DestroyChilds(Without(RecDestroyTiles(t, Append(p, i)), Append(p, i)),
                       p, i + 1))

\* a collector that destroys the stale childs of p and does not descend
\* into the others
ShallowCollect(t, p) ==
    LET stale == {c \in {Append(p, i) : i \in 0..3} :
                    c \in DOMAIN t /\ t[c].generation # generation_}
        gone == {q \in DOMAIN t : \E c \in stale :
                    Len(q) >= Len(c) /\ SubSeq(q, 1, Len(c)) = c}
    IN  [q \in DOMAIN t \ gone |-> t[q]]

\* a collector that also keeps the nodes stamped with the generation before
\* the current one
CollectKeepingPrevious(t, p) ==
    LET below(q) == Len(q) > Len(p) /\ SubSeq(q, 1, Len(p)) = p
        fresh(q) == \A k \in (Len(p) + 1)..Len(q) :
                       t[SubSeq(q, 1, k)].generation + 1 >= generation_
    IN  [q \in {r \in DOMAIN t : below(r) => fresh(r)} |-> t[q]]

\* RecGarbageCollectTiles(node at p)
RECURSIVE RecGarbageCollectTiles(_, _)
RECURSIVE CollectChilds(_, _, _)
RecGarbageCollectTiles(t, p) == CollectChilds(t, p, 0)

\* the loop of RecGarbageCollectTiles from child slot i on
CollectChilds(t0, p, i) ==
    ByValue(t0, LAMBDA t :
    IF i > 3 THEN t
    ELSE LET c == Append(p, i)
         IN  IF c \notin DOMAIN t
             THEN CollectChilds(t, p, i + 1)
             ELSE IF t[c].generation # generation_
             THEN CollectChilds(Without(RecDestroyTiles(t, c), c), p, i + 1)
             ELSE CollectChilds(RecGarbageCollectTiles(t, c), p, i + 1))

\* -------------------------------------------------------- RecRenderTiles

\* a render traversal without the generation test
RECURSIVE RenderEveryTile(_, _)
RenderEveryTile(t, p) ==
    IF p \notin DOMAIN t
    THEN <<>>
    ELSE RenderEveryTile(t, Append(p, 0)) \o RenderEveryTile(t, Append(p, 1))
         \o RenderEveryTile(t, Append(p, 2)) \o RenderEveryTile(t, Append(p, 3))
         \o (IF t[p].tile # NoTile THEN <<[node |-> p, tile |-> t[p].tile]>>
             ELSE <<>>)

\* RecRenderTiles(node at p): the tiles whose Render() is called, in order
RECURSIVE RecRenderTiles(_, _)
RecRenderTiles(t, p) ==
    IF p \notin DOMAIN t \/ t[p].generation # generation_
    THEN <<>>
    ELSE RecRenderTiles(t, Append(p, 0)) \o RecRenderTiles(t, Append(p, 1))
         \o RecRenderTiles(t, Append(p, 2)) \o RecRenderTiles(t, Append(p, 3))
         \o (IF t[p].tile # NoTile THEN <<[node |-> p, tile |-> t[p].tile]>>
             ELSE <<>>)

\* ------------------------------------------------------- initial states

\* pthread_cond_signal(&queue_cond_): wakes the loading thread if it waits
Signal(pc) == IF pc = "waiting" THEN "woken" ELSE pc

InitWith(level, range) ==
    /\ tree = (<<>> :> NewQuadNode(ForGeoTile(level, 0, 0, 0), 0))
    /\ generation_ = 0
    /\ queue_ = <<>>
    /\ loading_ = NoTileId
    /\ thread_die_flag_ = FALSE
    /\ tiles_mutex_ = "none"
    /\ queue_mutex_ = "none"
    /\ hires_level_ = level
    /\ hires_range_ = range
    /\ c_pc = "idle"
    /\ c_viewer = <<0, 0>>
    /\ c_flags = "NONE"
    /\ info = NoInfo
    /\ c_cands = <<>>
    /\ w_pc = "start"
    /\ w_task = NoTask
    /\ w_tile = NoTile
    /\ walk_log = <<>>
    /\ rendered = <<>>
    /\ gc_streak = 0
    /\ inflight_gc = FALSE
    /\ place_result = "none"
    /\ gc_evicted = {}
    /\ d_midload = FALSE
    /\ touched_last = {}
    /\ touched_since = {}

Init == InitWith(HiresLevel, HiresRange)

\* ---------------------------------------------------------- LoadLocality

workerVars == <<w_pc, w_task, w_tile, place_result>>
configVars == <<hires_level_, hires_range_>>
ghostVars == <<gc_evicted, d_midload, touched_last, touched_since>>

\* the consumer thread is back in its caller
Return ==
    /\ c_pc' = "idle"
    /\ c_viewer' = <<0, 0>>
    /\ c_flags' = "NONE"

\* the nodes the statement node->generation = generation_ of a walk over
\* tree t reaches
Touched(t) ==
    LET blank == [p \in DOMAIN t |-> [t[p] EXCEPT !.generation = -1]]
    IN  ByValue(RecLoadTiles([tree |-> blank, cands |-> <<>>], <<>>, 0, 0, 0),
                LAMBDA w :
                    {p \in DOMAIN w.tree : w.tree[p].generation = generation_})

\* the consumer calls LoadLocality(viewer, flags)
LoadLocality(v, f) ==
    /\ c_pc = "idle"
    /\ f = "SYNC" => Len(queue_) < MaxQueue
    /\ c_pc' = IF f = "SYNC" THEN "ll_lock_tiles" ELSE "ll_lock_queue"
    /\ c_viewer' = v
    /\ c_flags' = f
    /\ UNCHANGED <<tree, generation_, queue_, loading_, thread_die_flag_,
                   tiles_mutex_, queue_mutex_, info, c_cands, walk_log,
                   rendered, gc_streak, inflight_gc>>
    /\ UNCHANGED <<workerVars, configVars, ghostVars>>

\* the consumer calls LoadLocality(viewer, SYNC) while tasks are pending
LoadLocalityOnPending(v) ==
    /\ c_pc = "idle"
    /\ queue_ # <<>>
    /\ Len(queue_) < DupQueue
    /\ c_pc' = "ll_lock_tiles"
    /\ c_viewer' = v
    /\ c_flags' = "SYNC"
    /\ UNCHANGED <<tree, generation_, queue_, loading_, thread_die_flag_,
                   tiles_mutex_, queue_mutex_, info, c_cands, walk_log,
                   rendered, gc_streak, inflight_gc>>
    /\ UNCHANGED <<workerVars, configVars, ghostVars>>

\* a LoadLocality that takes the queue lock and leaves out queue_.clear()
LoadLocalityLockQueueKeeping ==
    /\ c_pc = "ll_lock_queue"
    /\ queue_mutex_ = "none"
    /\ queue_mutex_' = "consumer"
    /\ queue_' = queue_
    /\ c_pc' = "ll_lock_tiles"
    /\ UNCHANGED <<tree, generation_, loading_, thread_die_flag_,
                   tiles_mutex_, c_viewer, c_flags, info, c_cands, walk_log,
                   rendered, gc_streak, inflight_gc>>
    /\ UNCHANGED <<workerVars, configVars, ghostVars>>

\* pthread_mutex_lock(&queue_mutex_); queue_.clear()
LoadLocalityLockQueue ==
    /\ c_pc = "ll_lock_queue"
    /\ queue_mutex_ = "none"
    /\ queue_mutex_' = "consumer"
    /\ queue_' = <<>>
    /\ c_pc' = "ll_lock_tiles"
    /\ UNCHANGED <<tree, generation_, loading_, thread_die_flag_,
                   tiles_mutex_, c_viewer, c_flags, info, c_cands, walk_log,
                   rendered, gc_streak, inflight_gc>>
    /\ UNCHANGED <<workerVars, configVars, ghostVars>>

\* pthread_mutex_lock(&tiles_mutex_)
LoadLocalityLockTiles ==
    /\ c_pc = "ll_lock_tiles"
    /\ tiles_mutex_ = "none"
    /\ tiles_mutex_' = "consumer"
    /\ c_pc' = "ll_walk"
    /\ UNCHANGED <<tree, generation_, queue_, loading_, thread_die_flag_,
                   queue_mutex_, c_viewer, c_flags, info, c_cands, walk_log,
                   rendered, gc_streak, inflight_gc>>
    /\ UNCHANGED <<workerVars, configVars, ghostVars>>

\* RecLoadTiles(info, &root) of a call without SYNC: the queue lock is held,
\* so the whole walk, admissions included, is one step
LoadLocalityWalk ==
    /\ c_pc = "ll_walk"
    /\ c_flags # "SYNC"
    /\ \E cd \in UninitDistances :
       \E w \in {RecLoadTiles([tree |-> tree, cands |-> <<>>], <<>>, 0, 0, 0)} :
         \E aq \in {AdmitAll([queue |-> queue_,
                              info |-> [closest_distance |-> cd,
                                        queue_size |-> 0],
                              log |-> <<>>],
                             w.cands, 1, Len(w.cands), loading_)} :
             /\ tree' = w.tree
             /\ queue_' = aq.queue
             /\ walk_log' = aq.log
    /\ info' = NoInfo
    /\ gc_streak' = 0
    /\ touched_last' = Touched(tree)
    /\ touched_since' = touched_since \cup touched_last'
    /\ c_pc' = "ll_unlock_tiles"
    /\ UNCHANGED <<generation_, loading_, thread_die_flag_, tiles_mutex_,
                   queue_mutex_, c_viewer, c_flags, c_cands, rendered,
                   inflight_gc>>
    /\ UNCHANGED <<workerVars, configVars, gc_evicted, d_midload>>

\* RecLoadTiles(info, &root) of a SYNC call: the queue lock is not held, so
\* the loading thread can run between two admissions; the tree part of the
\* walk runs under the tree lock and is one step
LoadLocalityWalkSync ==
    /\ c_pc = "ll_walk"
    /\ c_flags = "SYNC"
    /\ \E cd \in UninitDistances :
       \E w \in {RecLoadTiles([tree |-> tree, cands |-> <<>>], <<>>, 0, 0, 0)} :
             /\ tree' = w.tree
             /\ c_cands' = w.cands
             /\ info' = IF w.cands = <<>> THEN NoInfo
                        ELSE [closest_distance |-> cd, queue_size |-> 0]
             /\ c_pc' = IF w.cands = <<>> THEN "ll_unlock_tiles"
                        ELSE "ll_admit"
    /\ walk_log' = <<>>
    /\ gc_streak' = 0
    /\ touched_last' = Touched(tree)
    /\ touched_since' = touched_since \cup touched_last'
    /\ UNCHANGED <<generation_, queue_, loading_, thread_die_flag_,
                   tiles_mutex_, queue_mutex_, c_viewer, c_flags, rendered,
                   inflight_gc>>
    /\ UNCHANGED <<workerVars, configVars, gc_evicted, d_midload>>

\* the admission of the next leaf of a SYNC walk
LoadLocalityAdmit ==
    /\ c_pc = "ll_admit"
    /\ c_cands # <<>>
    /\ LET aq == Admit([queue |-> queue_, info |-> info, log |-> walk_log],
                       Head(c_cands), loading_)
       IN  /\ queue_' = aq.queue
           /\ walk_log' = aq.log
           /\ info' = IF Tail(c_cands) = <<>> THEN NoInfo ELSE aq.info
    /\ c_cands' = Tail(c_cands)
    /\ c_pc' = IF Tail(c_cands) = <<>> THEN "ll_unlock_tiles" ELSE "ll_admit"
    /\ UNCHANGED <<tree, generation_, loading_, thread_die_flag_,
                   tiles_mutex_, queue_mutex_, c_viewer, c_flags, rendered,
                   gc_streak, inflight_gc>>
    /\ UNCHANGED <<workerVars, configVars, ghostVars>>

\* pthread_mutex_unlock(&tiles_mutex_); a SYNC call returns here
LoadLocalityUnlockTiles ==
    /\ c_pc = "ll_unlock_tiles"
    /\ tiles_mutex_' = "none"
    /\ walk_log' = <<>>
    /\ IF c_flags = "SYNC"
       THEN Return
       ELSE /\ c_pc' = "ll_unlock_queue"
            /\ UNCHANGED <<c_viewer, c_flags>>
    /\ UNCHANGED <<tree, generation_, queue_, loading_, thread_die_flag_,
                   queue_mutex_, info, c_cands, rendered, gc_streak,
                   inflight_gc>>
    /\ UNCHANGED <<workerVars, configVars, ghostVars>>

\* pthread_mutex_unlock(&queue_mutex_)
LoadLocalityUnlockQueue ==
    /\ c_pc = "ll_unlock_queue"
    /\ queue_mutex_' = "none"
    /\ c_pc' = "ll_signal"
    /\ UNCHANGED <<tree, generation_, queue_, loading_, thread_die_flag_,
                   tiles_mutex_, c_viewer, c_flags, info, c_cands, walk_log,
                   rendered, gc_streak, inflight_gc>>
    /\ UNCHANGED <<workerVars, configVars, ghostVars>>

\* a return that leaves out the pthread_cond_signal
LoadLocalityWithoutSignal ==
    /\ c_pc = "ll_signal"
    /\ w_pc' = w_pc
    /\ Return
    /\ UNCHANGED <<tree, generation_, queue_, loading_, thread_die_flag_,
                   tiles_mutex_, queue_mutex_, info, c_cands, walk_log,
                   rendered, gc_streak, inflight_gc, w_task, w_tile,
                   place_result>>
    /\ UNCHANGED <<configVars, ghostVars>>

\* if (!queue_.empty()) pthread_cond_signal(&queue_cond_)
LoadLocalitySignal ==
    /\ c_pc = "ll_signal"
    /\ w_pc' = IF queue_ # <<>> THEN Signal(w_pc) ELSE w_pc
    /\ Return
    /\ UNCHANGED <<tree, generation_, queue_, loading_, thread_die_flag_,
                   tiles_mutex_, queue_mutex_, info, c_cands, walk_log,
                   rendered, gc_streak, inflight_gc, w_task, w_tile,
                   place_result>>
    /\ UNCHANGED <<configVars, ghostVars>>

\* -------------------------------------------------------- GarbageCollect

\* the loading thread has taken a task and not yet placed its tile
InFlight == w_pc \in {"spawn", "lock_tiles", "place"}

\* the paths of the nodes from root_ down to the node of tile id
PathNodes(id) ==
    {SubSeq(WalkPath(id[1], id[2], id[3]), 1, k) : k \in 0..id[1]}

\* the consumer calls GarbageCollect()
GarbageCollect ==
    /\ c_pc = "idle"
    /\ generation_ < MaxGen
    /\ c_pc' = "gc_lock"
    /\ UNCHANGED <<tree, generation_, queue_, loading_, thread_die_flag_,
                   tiles_mutex_, queue_mutex_, c_viewer, c_flags, info,
                   c_cands, walk_log, rendered, gc_streak, inflight_gc>>
    /\ UNCHANGED <<workerVars, configVars, ghostVars>>

\* pthread_mutex_lock(&tiles_mutex_)
GarbageCollectLock ==
    /\ c_pc = "gc_lock"
    /\ tiles_mutex_ = "none"
    /\ tiles_mutex_' = "consumer"
    /\ c_pc' = "gc_body"
    /\ UNCHANGED <<tree, generation_, queue_, loading_, thread_die_flag_,
                   queue_mutex_, c_viewer, c_flags, info, c_cands, walk_log,
                   rendered, gc_streak, inflight_gc>>
    /\ UNCHANGED <<workerVars, configVars, ghostVars>>

\* a collection that leaves generation_ as it is
GarbageCollectBodyNoIncrement ==
    /\ c_pc = "gc_body"
    /\ tree' = RecGarbageCollectTiles(tree, <<>>)
    /\ gc_streak' = IF gc_streak < 2 THEN gc_streak + 1 ELSE 2
    /\ inflight_gc' = (inflight_gc \/
                       (InFlight /\ \E q \in PathNodes(loading_) :
                                       q \in DOMAIN tree /\ q \notin DOMAIN tree'))
    /\ gc_evicted' = DOMAIN tree \ DOMAIN tree'
    /\ c_pc' = "gc_unlock"
    /\ UNCHANGED <<generation_, queue_, loading_, thread_die_flag_,
                   tiles_mutex_, queue_mutex_, c_viewer, c_flags, info,
                   c_cands, walk_log, rendered>>
    /\ UNCHANGED <<workerVars, configVars, d_midload, touched_last,
                   touched_since>>

\* RecGarbageCollectTiles(&root_); generation_++
GarbageCollectBody ==
    /\ c_pc = "gc_body"
    /\ tree' = RecGarbageCollectTiles(tree, <<>>)
    /\ generation_' = generation_ + 1
    /\ gc_streak' = IF gc_streak < 2 THEN gc_streak + 1 ELSE 2
    /\ inflight_gc' = (inflight_gc \/
                       (InFlight /\ \E q \in PathNodes(loading_) :
                                       q \in DOMAIN tree /\ q \notin DOMAIN tree'))
    /\ gc_evicted' = DOMAIN tree \ DOMAIN tree'
    /\ c_pc' = "gc_unlock"
    /\ UNCHANGED <<queue_, loading_, thread_die_flag_, tiles_mutex_,
                   queue_mutex_, c_viewer, c_flags, info, c_cands, walk_log,
                   rendered>>
    /\ UNCHANGED <<workerVars, configVars, d_midload, touched_last,
                   touched_since>>

\* pthread_mutex_unlock(&tiles_mutex_)
GarbageCollectUnlock ==
    /\ c_pc = "gc_unlock"
    /\ tiles_mutex_' = "none"
    /\ gc_evicted' = {}
    /\ touched_since' = {}
    /\ Return
    /\ UNCHANGED <<tree, generation_, queue_, loading_, thread_die_flag_,
                   queue_mutex_, info, c_cands, walk_log, rendered,
                   gc_streak, inflight_gc>>
    /\ UNCHANGED <<workerVars, configVars, d_midload, touched_last>>

\* ---------------------------------------------------------------- Render

\* the consumer calls Render(viewer)
Render(v) ==
    /\ c_pc = "idle"
    /\ c_pc' = "r_lock"
    /\ c_viewer' = v
    /\ UNCHANGED <<tree, generation_, queue_, loading_, thread_die_flag_,
                   tiles_mutex_, queue_mutex_, c_flags, info, c_cands,
                   walk_log, rendered, gc_streak, inflight_gc>>
    /\ UNCHANGED <<workerVars, configVars, ghostVars>>

\* pthread_mutex_lock(&tiles_mutex_)
RenderLock ==
    /\ c_pc = "r_lock"
    /\ tiles_mutex_ = "none"
    /\ tiles_mutex_' = "consumer"
    /\ c_pc' = "r_body"
    /\ UNCHANGED <<tree, generation_, queue_, loading_, thread_die_flag_,
                   queue_mutex_, c_viewer, c_flags, info, c_cands, walk_log,
                   rendered, gc_streak, inflight_gc>>
    /\ UNCHANGED <<workerVars, configVars, ghostVars>>

\* RecRenderTiles(&root_, viewer)
RenderBody ==
    /\ c_pc = "r_body"
    /\ rendered' = RecRenderTiles(tree, <<>>)
    /\ c_pc' = "r_unlock"
    /\ UNCHANGED <<tree, generation_, queue_, loading_, thread_die_flag_,
                   tiles_mutex_, queue_mutex_, c_viewer, c_flags, info,
                   c_cands, walk_log, gc_streak, inflight_gc>>
    /\ UNCHANGED <<workerVars, configVars, ghostVars>>

\* pthread_mutex_unlock(&tiles_mutex_)
RenderUnlock ==
    /\ c_pc = "r_unlock"
    /\ tiles_mutex_' = "none"
    /\ rendered' = <<>>
    /\ Return
    /\ UNCHANGED <<tree, generation_, queue_, loading_, thread_die_flag_,
                   queue_mutex_, info, c_cands, walk_log, gc_streak,
                   inflight_gc>>
    /\ UNCHANGED <<workerVars, configVars, ghostVars>>

\* ----------------------------------------------------------- ~TileManager

\* the consumer destroys the manager: thread_die_flag_ = true
Destructor ==
    /\ c_pc = "idle"
    /\ thread_die_flag_' = TRUE
    /\ d_midload' = InFlight
    /\ c_pc' = "d_signal"
    /\ UNCHANGED <<tree, generation_, queue_, loading_, tiles_mutex_,
                   queue_mutex_, c_viewer, c_flags, info, c_cands, walk_log,
                   rendered, gc_streak, inflight_gc>>
    /\ UNCHANGED <<workerVars, configVars, gc_evicted, touched_last,
                   touched_since>>

\* pthread_cond_signal(&queue_cond_)
DestructorSignal ==
    /\ c_pc = "d_signal"
    /\ w_pc' = Signal(w_pc)
    /\ c_pc' = "d_join"
    /\ UNCHANGED <<tree, generation_, queue_, loading_, thread_die_flag_,
                   tiles_mutex_, queue_mutex_, c_viewer, c_flags, info,
                   c_cands, walk_log, rendered, gc_streak, inflight_gc,
                   w_task, w_tile, place_result>>
    /\ UNCHANGED <<configVars, ghostVars>>

\* a destructor that does not join the loading thread
DestructorNoJoin ==
    /\ c_pc = "d_join"
    /\ c_pc' = "d_destroy"
    /\ UNCHANGED <<tree, generation_, queue_, loading_, thread_die_flag_,
                   tiles_mutex_, queue_mutex_, c_viewer, c_flags, info,
                   c_cands, walk_log, rendered, gc_streak, inflight_gc>>
    /\ UNCHANGED <<workerVars, configVars, ghostVars>>

\* pthread_join(loading_thread_, NULL) returns
DestructorJoin ==
    /\ c_pc = "d_join"
    /\ w_pc = "exited"
    /\ c_pc' = "d_destroy"
    /\ UNCHANGED <<tree, generation_, queue_, loading_, thread_die_flag_,
                   tiles_mutex_, queue_mutex_, c_viewer, c_flags, info,
                   c_cands, walk_log, rendered, gc_streak, inflight_gc>>
    /\ UNCHANGED <<workerVars, configVars, ghostVars>>

\* the condition variable and the mutexes are destroyed; RecDestroyTiles(&root_)
DestructorDestroy ==
    /\ c_pc = "d_destroy"
    /\ tree' = RecDestroyTiles(tree, <<>>)
    /\ c_pc' = "dead"
    /\ UNCHANGED <<generation_, queue_, loading_, thread_die_flag_,
                   tiles_mutex_, queue_mutex_, c_viewer, c_flags, info,
                   c_cands, walk_log, rendered, gc_streak, inflight_gc>>
    /\ UNCHANGED <<workerVars, configVars, ghostVars>>

\* ------------------------------------------------------ LoadingThreadFunc

consumerVars == <<c_pc, c_viewer, c_flags, info, c_cands, walk_log, rendered,
                  gc_streak>>

\* pthread_mutex_lock(&queue_mutex_) at the start of the thread
WorkerStart ==
    /\ w_pc = "start"
    /\ queue_mutex_ = "none"
    /\ queue_mutex_' = "worker"
    /\ w_pc' = "loop"
    /\ UNCHANGED <<tree, generation_, queue_, loading_, thread_die_flag_,
                   tiles_mutex_, w_task, w_tile, place_result, inflight_gc>>
    /\ UNCHANGED <<consumerVars, configVars, ghostVars>>

\* while (!thread_die_flag_)
WorkerLoop ==
    /\ w_pc = "loop"
    /\ w_pc' = IF thread_die_flag_ THEN "exit" ELSE "body"
    /\ UNCHANGED <<tree, generation_, queue_, loading_, thread_die_flag_,
                   tiles_mutex_, queue_mutex_, w_task, w_tile, place_result,
                   inflight_gc>>
    /\ UNCHANGED <<consumerVars, configVars, ghostVars>>

\* queue_.empty(): pthread_cond_wait releases the queue lock and blocks
WorkerWait ==
    /\ w_pc = "body"
    /\ queue_ = <<>>
    /\ queue_mutex_' = "none"
    /\ w_pc' = "waiting"
    /\ UNCHANGED <<tree, generation_, queue_, loading_, thread_die_flag_,
                   tiles_mutex_, w_task, w_tile, place_result, inflight_gc>>
    /\ UNCHANGED <<consumerVars, configVars, ghostVars>>

\* pthread_cond_wait may return without a signal
WorkerSpuriousWakeup ==
    /\ w_pc = "waiting"
    /\ w_pc' = "woken"
    /\ UNCHANGED <<tree, generation_, queue_, loading_, thread_die_flag_,
                   tiles_mutex_, queue_mutex_, w_task, w_tile, place_result,
                   inflight_gc>>
    /\ UNCHANGED <<consumerVars, configVars, ghostVars>>

\* pthread_cond_wait takes the queue lock again and returns; continue
WorkerWake ==
    /\ w_pc = "woken"
    /\ queue_mutex_ = "none"
    /\ queue_mutex_' = "worker"
    /\ w_pc' = "loop"
    /\ UNCHANGED <<tree, generation_, queue_, loading_, thread_die_flag_,
                   tiles_mutex_, w_task, w_tile, place_result, inflight_gc>>
    /\ UNCHANGED <<consumerVars, configVars, ghostVars>>

\* a dequeue that keeps the queue lock during the load
WorkerTakeKeepingLock ==
    /\ w_pc = "body"
    /\ queue_ # <<>>
    /\ w_task' = Head(queue_)
    /\ queue_' = Tail(queue_)
    /\ loading_' = Head(queue_).id
    /\ inflight_gc' = FALSE
    /\ w_pc' = "spawn"
    /\ UNCHANGED <<tree, generation_, thread_die_flag_, tiles_mutex_,
                   queue_mutex_, w_tile, place_result>>
    /\ UNCHANGED <<consumerVars, configVars, ghostVars>>

\* task = queue_.front(); queue_.pop_front(); loading_ = task.id; unlock
WorkerTake ==
    /\ w_pc = "body"
    /\ queue_ # <<>>
    /\ w_task' = Head(queue_)
    /\ queue_' = Tail(queue_)
    /\ loading_' = Head(queue_).id
    /\ queue_mutex_' = "none"
    /\ inflight_gc' = FALSE
    /\ w_pc' = "spawn"
    /\ UNCHANGED <<tree, generation_, thread_die_flag_, tiles_mutex_, w_tile,
                   place_result>>
    /\ UNCHANGED <<consumerVars, configVars, ghostVars>>

\* tile = SpawnTile(task.bbox) returns
WorkerSpawnTile ==
    /\ w_pc = "spawn"
    /\ w_tile' = SpawnTile(w_task.bbox)
    /\ w_pc' = "lock_tiles"
    /\ UNCHANGED <<tree, generation_, queue_, loading_, thread_die_flag_,
                   tiles_mutex_, queue_mutex_, w_task, place_result,
                   inflight_gc>>
    /\ UNCHANGED <<consumerVars, configVars, ghostVars>>

\* a loading thread that places its tile without taking the tree lock
WorkerSkipLockTiles ==
    /\ w_pc = "lock_tiles"
    /\ w_pc' = "place"
    /\ UNCHANGED <<tree, generation_, queue_, loading_, thread_die_flag_,
                   tiles_mutex_, queue_mutex_, w_task, w_tile, place_result,
                   inflight_gc>>
    /\ UNCHANGED <<consumerVars, configVars, ghostVars>>

\* pthread_mutex_lock(&tiles_mutex_)
WorkerLockTiles ==
    /\ w_pc = "lock_tiles"
    /\ tiles_mutex_ = "none"
    /\ tiles_mutex_' = "worker"
    /\ w_pc' = "place"
    /\ UNCHANGED <<tree, generation_, queue_, loading_, thread_die_flag_,
                   queue_mutex_, w_task, w_tile, place_result, inflight_gc>>
    /\ UNCHANGED <<consumerVars, configVars, ghostVars>>

\* RecPlaceTile(&root_, tile, task.id.level, task.id.x, task.id.y)
WorkerPlace ==
    /\ w_pc = "place"
    /\ LET r == RecPlaceTile(tree, <<>>, w_tile, w_task.id[1], w_task.id[2],
                             w_task.id[3])
       IN  /\ tree' = r.tree
           /\ place_result' = r.result
    /\ w_tile' = NoTile
    /\ w_pc' = "unlock_tiles"
    /\ UNCHANGED <<generation_, queue_, loading_, thread_die_flag_,
                   tiles_mutex_, queue_mutex_, w_task, inflight_gc>>
    /\ UNCHANGED <<consumerVars, configVars, ghostVars>>

\* a loading thread that keeps the tree lock when it asks for the queue lock
WorkerKeepingTilesLock ==
    /\ w_pc = "unlock_tiles"
    /\ tiles_mutex_' = tiles_mutex_
    /\ w_pc' = "relock"
    /\ UNCHANGED <<tree, generation_, queue_, loading_, thread_die_flag_,
                   queue_mutex_, w_task, w_tile, place_result, inflight_gc>>
    /\ UNCHANGED <<consumerVars, configVars, ghostVars>>

\* pthread_mutex_unlock(&tiles_mutex_); sched_yield()
WorkerUnlockTiles ==
    /\ w_pc = "unlock_tiles"
    /\ tiles_mutex_' = "none"
    /\ w_pc' = "relock"
    /\ UNCHANGED <<tree, generation_, queue_, loading_, thread_die_flag_,
                   queue_mutex_, w_task, w_tile, place_result, inflight_gc>>
    /\ UNCHANGED <<consumerVars, configVars, ghostVars>>

\* pthread_mutex_lock(&queue_mutex_); loading_ = TileId(-1, -1, -1)
WorkerRelock ==
    /\ w_pc = "relock"
    /\ queue_mutex_ = "none"
    /\ queue_mutex_' = "worker"
    /\ loading_' = NoTileId
    /\ w_task' = NoTask
    /\ place_result' = "none"
    /\ inflight_gc' = FALSE
    /\ w_pc' = "loop"
    /\ UNCHANGED <<tree, generation_, queue_, thread_die_flag_, tiles_mutex_,
                   w_tile>>
    /\ UNCHANGED <<consumerVars, configVars, ghostVars>>

\* pthread_mutex_unlock(&queue_mutex_) after the loop; the thread ends
WorkerExit ==
    /\ w_pc = "exit"
    /\ queue_mutex_' = "none"
    /\ w_pc' = "exited"
    /\ UNCHANGED <<tree, generation_, queue_, loading_, thread_die_flag_,
                   tiles_mutex_, w_task, w_tile, place_result, inflight_gc>>
    /\ UNCHANGED <<consumerVars, configVars, ghostVars>>

\* ------------------------------------------------------- specifications

Flags == {"NONE", "SYNC"}

\* a step of the loading thread that pthread guarantees to happen
WorkerStep ==
    \/ WorkerStart
    \/ WorkerLoop
    \/ WorkerWait
    \/ WorkerWake
    \/ WorkerTake
    \/ WorkerSpawnTile
    \/ WorkerLockTiles
    \/ WorkerPlace
    \/ WorkerUnlockTiles
    \/ WorkerRelock
    \/ WorkerExit

\* a step of a call the consumer has already made
ConsumerStep ==
    \/ LoadLocalityLockQueue
    \/ LoadLocalityLockTiles
    \/ LoadLocalityWalk
    \/ LoadLocalityWalkSync
    \/ LoadLocalityAdmit
    \/ LoadLocalityUnlockTiles
    \/ LoadLocalityUnlockQueue
    \/ LoadLocalitySignal
    \/ GarbageCollectLock
    \/ GarbageCollectBody
    \/ GarbageCollectUnlock
    \/ RenderLock
    \/ RenderBody
    \/ RenderUnlock
    \/ DestructorSignal
    \/ DestructorJoin
    \/ DestructorDestroy

\* a call of the consumer
ConsumerCall ==
    \/ \E v \in Viewers, f \in Flags : LoadLocality(v, f)
    \/ \E v \in Viewers : Render(v)
    \/ GarbageCollect
    \/ Destructor

Next == ConsumerCall \/ ConsumerStep \/ WorkerStep \/ WorkerSpuriousWakeup

Spec == Init /\ [][Next]_vars

\* both threads are scheduled: a step of the loading thread, or of a call
\* the consumer has made, that stays possible is taken; a spurious wakeup
\* and a new call of the consumer are not guaranteed
FairSpec == Spec /\ WF_vars(WorkerStep) /\ WF_vars(ConsumerStep)

\* the number of nodes that hold a tile
Resident == Cardinality({p \in DOMAIN tree : tree[p].tile # NoTile})

InitCap == InitWith(CapLevel, CapRange)

\* LoadLocality without SYNC and the loading thread, on a tree with more
\* than QueueCap leaves in range
NextCap ==
    \/ \E v \in CapViewers : LoadLocality(v, "NONE")
    \/ LoadLocalityLockQueue
    \/ LoadLocalityLockTiles
    \/ LoadLocalityWalk
    \/ LoadLocalityUnlockTiles
    \/ LoadLocalityUnlockQueue
    \/ LoadLocalitySignal
    \/ WorkerStart
    \/ WorkerLoop
    \/ WorkerWait
    \/ WorkerWake
    \/ (Resident < CapLoads /\ WorkerTake)
    \/ WorkerSpawnTile
    \/ WorkerLockTiles
    \/ WorkerPlace
    \/ WorkerUnlockTiles
    \/ WorkerRelock

SpecCap == InitCap /\ [][NextCap]_vars

\* LoadLocality with and without SYNC, GarbageCollect and the loading
\* thread, with SYNC calls that find tasks pending: a tile can be queued,
\* and so loaded, twice
NextDup ==
    \/ \E v \in Viewers : LoadLocality(v, "NONE")
    \/ \E v \in Viewers : LoadLocalityOnPending(v)
    \/ LoadLocalityLockQueue
    \/ LoadLocalityLockTiles
    \/ LoadLocalityWalk
    \/ LoadLocalityWalkSync
    \/ LoadLocalityAdmit
    \/ LoadLocalityUnlockTiles
    \/ LoadLocalityUnlockQueue
    \/ LoadLocalitySignal
    \/ (generation_ < DupGen /\ GarbageCollect)
    \/ GarbageCollectLock
    \/ GarbageCollectBody
    \/ GarbageCollectUnlock
    \/ WorkerStart
    \/ WorkerLoop
    \/ WorkerWait
    \/ WorkerWake
    \/ WorkerTake
    \/ WorkerSpawnTile
    \/ WorkerLockTiles
    \/ WorkerPlace
    \/ WorkerUnlockTiles
    \/ WorkerRelock

SpecDup == Init /\ [][NextDup]_vars

\* LoadLocality with and without SYNC, Render and the loading thread of a
\* manager that is not destroyed
NextWake ==
    \/ \E v \in Viewers, f \in Flags : LoadLocality(v, f)
    \/ \E v \in Viewers : Render(v)
    \/ LoadLocalityLockQueue
    \/ LoadLocalityLockTiles
    \/ LoadLocalityWalk
    \/ LoadLocalityWalkSync
    \/ LoadLocalityAdmit
    \/ LoadLocalityUnlockTiles
    \/ LoadLocalityUnlockQueue
    \/ LoadLocalitySignal
    \/ RenderLock
    \/ RenderBody
    \/ RenderUnlock
    \/ WorkerStart
    \/ WorkerLoop
    \/ WorkerWait
    \/ WorkerSpuriousWakeup
    \/ WorkerWake
    \/ WorkerTake
    \/ WorkerSpawnTile
    \/ WorkerLockTiles
    \/ WorkerPlace
    \/ WorkerUnlockTiles
    \/ WorkerRelock

\* fair scheduling: a call the consumer has made goes on, and the loading
\* thread takes its next step, a lock included, if that step is possible
\* again and again
FairWakeSpec ==
    Init /\ [][NextWake]_vars /\ SF_vars(WorkerStep) /\ WF_vars(ConsumerStep)

\* LoadLocality without SYNC, GarbageCollect and the loading thread
NextAsync ==
    \/ \E v \in Viewers : LoadLocality(v, "NONE")
    \/ LoadLocalityLockQueue
    \/ LoadLocalityLockTiles
    \/ LoadLocalityWalk
    \/ LoadLocalityUnlockTiles
    \/ LoadLocalityUnlockQueue
    \/ LoadLocalitySignal
    \/ GarbageCollect
    \/ GarbageCollectLock
    \/ GarbageCollectBody
    \/ GarbageCollectUnlock
    \/ WorkerStart
    \/ WorkerLoop
    \/ WorkerWait
    \/ WorkerSpuriousWakeup
    \/ WorkerWake
    \/ WorkerTake
    \/ WorkerSpawnTile
    \/ WorkerLockTiles
    \/ WorkerPlace
    \/ WorkerUnlockTiles
    \/ WorkerRelock

SpecAsync == Init /\ [][NextAsync]_vars

\* ---------------------------------------------------------- properties

\* the call in progress has just run its body and still holds its locks
CollectStep == c_pc = "gc_body" /\ c_pc' = "gc_unlock"
PlaceStep == w_pc = "place" /\ w_pc' = "unlock_tiles"
WalkEnded == c_pc = "ll_unlock_tiles"

\* the prefixes of path p, from root_ (k = 0) to p itself
Prefix(p, k) == SubSeq(p, 1, k)

\* C1 as stated: a GarbageCollect that follows another GarbageCollect with
\* no LoadLocality walk in between removes no node.
CollectTwiceRemovesNothing ==
    [][(CollectStep /\ gc_streak >= 1) => DOMAIN tree' = DOMAIN tree]_vars

\* C1 as amended: a GarbageCollect that follows another GarbageCollect with
\* no LoadLocality walk in between destroys every node but root_ (the
\* survivors of the first call carry the generation the first call left
\* behind); from then on a further call finds only root_ and removes nothing.
CollectTwiceLeavesRoot ==
    [][(CollectStep /\ gc_streak >= 1) => DOMAIN tree' = {<<>>}]_vars

\* a second collection in a row has just destroyed nodes
CollectTwiceWitness ==
    c_pc = "gc_unlock" /\ gc_streak = 2 /\ gc_evicted # {}

\* C3: once the destructor has set thread_die_flag_ and signalled
\* queue_cond_, the loading thread leaves its loop and pthread_join returns.
DestructionCompletes == (c_pc = "d_join") ~> (c_pc = "d_destroy")

\* C4: the tree is freed only after the loading thread has ended, so the
\* loading thread touches no node once RecDestroyTiles may run.
FreedAfterWorkerExit ==
    c_pc \in {"d_destroy", "dead"} => w_pc = "exited"

\* the destructor started during a load and has freed the tree
FreedAfterWorkerExitWitness ==
    c_pc = "dead" /\ d_midload /\ w_pc = "exited"

\* C5 as stated: if GarbageCollect removed a node on the way to the tile's
\* node while the task was in flight, the placement leaves the tree as it is.
PlaceAfterCollectKeepsTree ==
    [][(PlaceStep /\ inflight_gc) => tree' = tree]_vars

\* C5 as amended: if a node on the way from root_ to the tile's node is
\* absent when the tile is placed, RecPlaceTile discards the tile and leaves
\* the tree as it is; and no placement creates or removes a node.
PlaceAtAbsentNodeKeepsTree ==
    [][PlaceStep =>
         /\ DOMAIN tree' = DOMAIN tree
         /\ (\E q \in PathNodes(w_task.id) : q \notin DOMAIN tree)
              => (tree' = tree /\ place_result' = "absent")]_vars

\* a tile whose node was collected during the load has been discarded
PlaceAtAbsentNodeWitness ==
    w_pc = "unlock_tiles" /\ place_result = "absent" /\ inflight_gc

\* C6: the walk, the collector, the render traversal and the placement run
\* only while their thread owns tiles_mutex_ (so never two of them at once).
TreeAccessUnderLock ==
    /\ c_pc \in {"ll_walk", "ll_admit", "ll_unlock_tiles", "gc_body",
                 "gc_unlock", "r_body", "r_unlock"}
         => tiles_mutex_ = "consumer"
    /\ w_pc \in {"place", "unlock_tiles"} => tiles_mutex_ = "worker"

\* the consumer waits for the tree lock while the loading thread places
TreeAccessWitness ==
    c_pc \in {"ll_lock_tiles", "gc_lock", "r_lock"} /\ w_pc = "place"

\* the nodes GarbageCollect keeps: every node on the way to them, root_
\* excepted, carries the current generation
Marked(t, p) == \A k \in 1..Len(p) : t[Prefix(p, k)].generation = generation_

\* C7: GarbageCollect keeps exactly the nodes whose stamp and whose non-root
\* ancestors' stamps equal generation_, unchanged, destroys the others, and
\* adds one to generation_.
CollectKeepsMarked ==
    [][CollectStep =>
         /\ tree' = [p \in {q \in DOMAIN tree : Marked(tree, q)} |-> tree[p]]
         /\ generation_' = generation_ + 1]_vars

\* a collection destroyed a node below a node it kept
CollectKeepsMarkedWitness ==
    /\ c_pc = "gc_unlock"
    /\ \E p \in gc_evicted : Len(p) >= 2 /\ Prefix(p, Len(p) - 1) \in DOMAIN tree

\* the entries of the log that reached a push or a drop
Admitted(log, i) == log[i].where \in {"front", "back"}
Considered(log, i) == log[i].where # "loading"

\* the queue the decisions of the log build from an empty queue: the tasks
\* pushed to the front, last first, then the tasks pushed to the back
QueueOfLog(log) ==
    LET fronts == SelectSeq(log, LAMBDA e : e.where = "front")
        backs == SelectSeq(log, LAMBDA e : e.where = "back")
    IN  [i \in 1..Len(fronts) |-> fronts[Len(fronts) + 1 - i].id]
        \o [i \in 1..Len(backs) |-> backs[i].id]

QueueIds == [i \in 1..Len(queue_) |-> queue_[i].id]

\* C8: in a walk without SYNC a candidate strictly closer than every
\* candidate admitted before it goes to the front, any other admitted
\* candidate to the back, and at the end of the walk the front of the queue
\* is as close as the closest candidate of the walk.
ClosestAtFront ==
    (WalkEnded /\ c_flags # "SYNC") =>
        /\ QueueIds = QueueOfLog(walk_log)
        /\ \A i \in 1..Len(walk_log) :
             Admitted(walk_log, i) =>
               (walk_log[i].where = "front" <=>
                  \A j \in 1..(i - 1) :
                     Admitted(walk_log, j) => walk_log[i].dist < walk_log[j].dist)
        /\ \A i \in 1..Len(walk_log) :
             Considered(walk_log, i) =>
               /\ queue_ # <<>>
               /\ ApproxDistanceSquare(Head(queue_).bbox, c_viewer)
                    <= walk_log[i].dist

\* a walk pushed a farther tile first, a closer one to the front after it,
\* and one to the back
ClosestAtFrontWitness ==
    /\ WalkEnded /\ c_flags # "SYNC"
    /\ \E i, j, k \in 1..Len(walk_log) :
         /\ i < j /\ walk_log[i].where = "front" /\ walk_log[j].where = "front"
         /\ walk_log[k].where = "back"

\* the nodes RecRenderTiles reaches: they and all the nodes above them,
\* root_ included, carry the current generation
Current(t, p) == \A k \in 0..Len(p) : t[Prefix(p, k)].generation = generation_

\* C10: Render calls Render() of exactly the tiles of the nodes that hold a
\* tile and are current up to root_, once each, and changes nothing.
RenderDrawsCurrentTiles ==
    /\ [](c_pc = "r_unlock" =>
            /\ {rendered[i] : i \in 1..Len(rendered)} =
                 {[node |-> p, tile |-> tree[p].tile] :
                    p \in {q \in DOMAIN tree :
                             tree[q].tile # NoTile /\ Current(tree, q)}}
            /\ \A i, j \in 1..Len(rendered) :
                 rendered[i] = rendered[j] => i = j)
    /\ [][(c_pc = "r_body" /\ c_pc' = "r_unlock") =>
            UNCHANGED <<tree, generation_, queue_, loading_>>]_vars

\* a Render drew a tile and skipped the tile of a stale node
RenderDrawsCurrentTilesWitness ==
    /\ c_pc = "r_unlock"
    /\ rendered # <<>>
    /\ \E p \in DOMAIN tree : tree[p].tile # NoTile /\ ~Current(tree, p)

\* the tiles of the hires level
LeafIds ==
    {TileId(hires_level_, x, y) :
        x \in 0..(Pow2(hires_level_) - 1), y \in 0..(Pow2(hires_level_) - 1)}

\* the node RecLoadTiles visits for tile id holds a tile
HoldsTile(id) ==
    LET p == WalkPath(id[1], id[2], id[3])
    IN  p \in DOMAIN tree /\ tree[p].tile # NoTile

\* the leaf tiles within hires_range_ of the viewer that are neither resident
\* nor being loaded
Wanted ==
    {id \in LeafIds :
        /\ ApproxDistanceSquare(ForGeoTile(hires_level_, id[1], id[2], id[3]),
                                c_viewer) <= hires_range_ * hires_range_
        /\ ~HoldsTile(id)
        /\ id # loading_}

QueuedIds == {queue_[i].id : i \in 1..Len(queue_)}

\* C2 as stated: when a walk without SYNC ends, the queue holds exactly the
\* leaf tiles in range that are neither resident nor being loaded.
QueueIsWanted ==
    (WalkEnded /\ c_flags # "SYNC") => QueuedIds = Wanted

\* C2 as amended: when a walk without SYNC ends, the queue holds only leaf
\* tiles in range that are neither resident nor being loaded, and all of
\* them when they are at most QueueCap (beyond the cap, tiles not closer than
\* the closest one so far are left out).
QueueWithinWanted ==
    (WalkEnded /\ c_flags # "SYNC") =>
        /\ QueuedIds \subseteq Wanted
        /\ Cardinality(Wanted) <= QueueCap => QueuedIds = Wanted

\* a walk queued all the wanted tiles, skipping a resident tile and the tile
\* being loaded, both in range
QueueWithinWantedWitness ==
    /\ WalkEnded /\ c_flags # "SYNC"
    /\ QueuedIds # {}
    /\ Cardinality(Wanted) <= QueueCap
    /\ \E i \in 1..Len(walk_log) : walk_log[i].where = "loading"
    /\ \E id \in LeafIds :
         /\ HoldsTile(id)
         /\ ApproxDistanceSquare(ForGeoTile(hires_level_, id[1], id[2], id[3]),
                                 c_viewer) <= hires_range_ * hires_range_

\* the number of pushes of the walk before its i-th candidate
PushedBefore(log, i) == Cardinality({j \in 1..(i - 1) : Admitted(log, j)})

\* C9: a walk pushes at most QueueCap tasks to the back; once it has pushed
\* QueueCap tasks, a candidate goes to the front if it is strictly closer than
\* the closest distance of the walk and is dropped otherwise.
BackPushesCapped ==
    WalkEnded =>
        /\ Cardinality({i \in 1..Len(walk_log) : walk_log[i].where = "back"})
             <= QueueCap
        /\ \A i \in 1..Len(walk_log) :
             (Considered(walk_log, i) /\ PushedBefore(walk_log, i) >= QueueCap)
               => walk_log[i].where =
                    IF walk_log[i].dist < walk_log[i].closest
                    THEN "front" ELSE "dropped"
        /\ c_flags # "SYNC" => QueueIds = QueueOfLog(walk_log)

\* a walk that reached the cap has then dropped a candidate and pushed a
\* closer one to the front
BackPushesCappedWitness ==
    /\ WalkEnded
    /\ \E i, j \in 1..Len(walk_log) :
         /\ PushedBefore(walk_log, i) >= QueueCap
         /\ PushedBefore(walk_log, j) >= QueueCap
         /\ walk_log[i].where = "dropped"
         /\ walk_log[j].where = "front"

\* the address (level, x, y) RecLoadTiles gave the node at p
AddressOf(t, p) == TileId(t[p].bbox.level, t[p].bbox.x, t[p].bbox.y)

\* C11: the node the walk reached or created for an address (level, x, y) is
\* the node RecPlaceTile reaches from root_ for TileId(level, x, y), so a
\* tile sits only on the node that asked for it.
NodeAtItsAddress ==
    \A p \in DOMAIN tree :
        LET id == AddressOf(tree, p)
            probe == SpawnTile(id)
            r == RecPlaceTile([tree EXCEPT ![p].tile = NoTile], <<>>, probe,
                              id[1], id[2], id[3])
        IN  /\ Len(p) = id[1]
            /\ r.result = "placed"
            /\ r.tree[p].tile = probe
            /\ tree[p].tile # NoTile => tree[p].tile = SpawnTile(tree[p].bbox)

\* the loading thread has attached the tile of a leaf with x # y to the node
\* the walk made for it
NodeAtItsAddressWitness ==
    /\ w_pc = "unlock_tiles" /\ place_result = "placed"
    /\ w_task.id[1] = hires_level_
    /\ w_task.id[2] # w_task.id[3]
    /\ \E p \in DOMAIN tree :
         /\ AddressOf(tree, p) = w_task.id
         /\ tree[p].tile = SpawnTile(w_task.bbox)

\* C12: LoadLocality, with or without SYNC, and the loading thread read and
\* write queue_ and loading_ only while they own queue_mutex_: the consumer
\* owns it when an admission of its walk runs (loading_, queue_.empty(),
\* push_front, push_back) and when it tests queue_.empty() before the signal,
\* the loading thread when it tests, reads and pops the queue and writes
\* loading_.
QueueAccessUnderLock ==
    /\ c_pc \in {"ll_admit", "ll_signal"} => queue_mutex_ = "consumer"
    /\ (c_pc = "ll_walk" /\ c_flags # "SYNC") => queue_mutex_ = "consumer"
    /\ w_pc \in {"loop", "body", "exit"} => queue_mutex_ = "worker"

\* C13 as stated: when GarbageCollect has run, every node other than root_
\* that is left was stamped by the most recent walk before the call.
KeptWereInLastWalk ==
    c_pc = "gc_unlock" => (DOMAIN tree \ {<<>>}) \subseteq touched_last

\* C13 as amended: when GarbageCollect has run, every node other than root_
\* that is left was stamped by a walk since the previous GarbageCollect (by
\* the most recent walk or by an earlier one).
KeptWereInSomeWalk ==
    c_pc = "gc_unlock" => (DOMAIN tree \ {<<>>}) \subseteq touched_since

\* a collection that followed two walks with different viewer positions kept
\* a node that only the earlier walk had stamped
KeptWereInSomeWalkWitness ==
    /\ c_pc = "gc_unlock"
    /\ touched_last # {}
    /\ (touched_since \ touched_last) \cap DOMAIN tree # {}

\* the distance the walk in progress computed for the i-th task of the queue
QueueDist(i) == ApproxDistanceSquare(queue_[i].bbox, c_viewer)

\* the tiles the walk in progress pushed to the front of the queue
FrontIds ==
    {walk_log[k].id : k \in {n \in 1..Len(walk_log) : walk_log[n].where = "front"}}

\* C14 as stated: when a walk without SYNC ends, of two tasks of the queue
\* the strictly closer one is ahead of the other.
CloserIsAhead ==
    (WalkEnded /\ c_flags # "SYNC") =>
        \A i, j \in 1..Len(queue_) : QueueDist(i) < QueueDist(j) => i < j

\* C14 as amended: when a walk without SYNC ends, a task that was pushed to
\* the front (it was strictly closer than every candidate admitted before it)
\* is ahead of every strictly farther task of the queue; tasks pushed to the
\* back keep the order of the walk whatever their distances.
CloserFrontIsAhead ==
    (WalkEnded /\ c_flags # "SYNC") =>
        LET fronts == FrontIds
        IN  \A i, j \in 1..Len(queue_) :
              (QueueDist(i) < QueueDist(j) /\ queue_[i].id \in fronts) => i < j

\* a walk left a farther task ahead of a closer one at the back, behind
\* several tasks pushed to the front
CloserFrontIsAheadWitness ==
    /\ WalkEnded /\ c_flags # "SYNC"
    /\ Cardinality(FrontIds) >= 2
    /\ \E i, j \in 1..Len(queue_) : i < j /\ QueueDist(i) > QueueDist(j)

\* the node RecPlaceTile looks for the tile of the task in hand
TargetNode == WalkPath(w_task.id[1], w_task.id[2], w_task.id[3])

\* C15: when the loading thread places a tile and the node of the task holds
\* a tile already, the new tile is discarded and the tree stays as it is; and
\* no step replaces or removes the tile of a node that stays in the tree.
FirstTileStays ==
    /\ [][(PlaceStep /\ TargetNode \in DOMAIN tree
             /\ tree[TargetNode].tile # NoTile)
            => (tree' = tree /\ place_result' = "duplicate")]_vars
    /\ [][\A p \in DOMAIN tree \cap DOMAIN tree' :
            tree[p].tile # NoTile => tree'[p].tile = tree[p].tile]_vars

\* the tile of a task that was queued twice has been discarded at a node that
\* holds the tile of the first load
FirstTileStaysWitness ==
    /\ w_pc = "unlock_tiles" /\ place_result = "duplicate"
    /\ tree[TargetNode].tile # NoTile

\* C16: while the loading thread is inside SpawnTile it owns neither lock,
\* it never owns both locks at once, and a call of LoadLocality, Render or
\* GarbageCollect that is about to take a lock during a load finds it free.
LoadHoldsNoLock ==
    /\ w_pc = "spawn" => (queue_mutex_ # "worker" /\ tiles_mutex_ # "worker")
    /\ ~(queue_mutex_ = "worker" /\ tiles_mutex_ = "worker")
    /\ (w_pc = "spawn" /\ c_pc = "ll_lock_queue") => queue_mutex_ = "none"
    /\ (w_pc = "spawn" /\ c_pc \in {"ll_lock_tiles", "gc_lock", "r_lock"})
         => tiles_mutex_ = "none"

\* a walk runs under both locks while the loading thread is inside SpawnTile
LoadHoldsNoLockWitness ==
    /\ w_pc = "spawn"
    /\ c_pc = "ll_walk"
    /\ queue_mutex_ = "consumer" /\ tiles_mutex_ = "consumer"

\* a LoadLocality without SYNC has released the locks with tasks in the queue
\* and is about to signal and return
ReturnsWithWork == c_pc = "ll_signal" /\ queue_ # <<>>

\* the loading thread owns the queue lock in front of a task: its next step
\* pops the front of the queue
AboutToPop == w_pc = "body" /\ queue_ # <<>>

RECURSIVE PathAddress(_)
PathAddress(p) ==
    IF p = <<>> THEN TileId(0, 0, 0)
    ELSE LET a == PathAddress(SubSeq(p, 1, Len(p) - 1))
             k == p[Len(p)]
         IN  TileId(a[1] + 1, 2 * a[2] + (k % 2), 2 * a[3] + (k \div 2))

\* the range test of RecLoadTiles for the address of the node at p
InLoadRange(p, viewer) ==
    LET a == PathAddress(p)
    IN  ApproxDistanceSquare(ForGeoTile(hires_level_, a[1], a[2], a[3]),
                             viewer)
          <= hires_range_ * hires_range_

\* C18: a node comes into the tree only in the walk of LoadLocality, and only
\* at an address within hires_range_ of the viewer of that walk, below a node
\* that is in the tree; placement, collection, render and every other step
\* create no node.
CreatedInRange ==
    [][\A p \in DOMAIN tree' \ DOMAIN tree :
          /\ c_pc = "ll_walk"
          /\ InLoadRange(p, c_viewer)
          /\ SubSeq(p, 1, Len(p) - 1) \in DOMAIN tree']_vars

\* a walk has created a node and has left absent a child, out of range, of a
\* node it visited
CreatedInRangeWitness ==
    /\ c_pc \in {"ll_admit", "ll_unlock_tiles"}
    /\ \E p \in DOMAIN tree : p # <<>> /\ tree[p].tile = NoTile
                              /\ tree[p].generation = generation_
    /\ \E p \in DOMAIN tree, k \in 0..3 :
         /\ p \in touched_last
         /\ Len(p) < hires_level_
         /\ Append(p, k) \notin DOMAIN tree
         /\ ~InLoadRange(Append(p, k), c_viewer)

\* the lock the consumer is blocked in pthread_mutex_lock for
ConsumerWants ==
    IF c_pc = "ll_lock_queue" THEN "queue"
    ELSE IF c_pc \in {"ll_lock_tiles", "gc_lock", "r_lock"} THEN "tiles"
    ELSE "none"

\* the lock the loading thread is blocked for, in pthread_mutex_lock or on
\* the way out of pthread_cond_wait
WorkerWants ==
    IF w_pc \in {"start", "woken", "relock"} THEN "queue"
    ELSE IF w_pc = "lock_tiles" THEN "tiles"
    ELSE "none"

\* the owner of a lock
Holder(m) == IF m = "queue" THEN queue_mutex_
             ELSE IF m = "tiles" THEN tiles_mutex_ ELSE "none"

\* C19: the consumer and the loading thread never wait each for a lock the
\* other holds; a LoadLocality without SYNC holds the queue lock whenever it
\* asks for or holds the tree lock, and the loading thread holds neither lock
\* when it asks for one.
NoLockCycle ==
    /\ ~(Holder(ConsumerWants) = "worker" /\ Holder(WorkerWants) = "consumer")
    /\ (c_flags # "SYNC" /\ c_pc \in {"ll_lock_tiles", "ll_walk",
                                      "ll_unlock_tiles", "ll_unlock_queue"})
         => queue_mutex_ = "consumer"
    /\ (c_pc = "ll_unlock_queue" \/ c_pc = "ll_lock_queue")
         => tiles_mutex_ # "consumer"
    /\ WorkerWants # "none"
         => (queue_mutex_ # "worker" /\ tiles_mutex_ # "worker")

\* the consumer, in LoadLocality with the queue lock, waits for the tree lock
\* the loading thread holds
NoLockCycleWitness ==
    /\ c_pc = "ll_lock_tiles"
    /\ queue_mutex_ = "consumer"
    /\ tiles_mutex_ = "worker"

\* C20: with LoadLocality called without SYNC only, the queue never holds two
\* tasks of one TileId, never holds the TileId recorded in loading_, and never
\* holds a task whose node holds a tile; so the task the loading thread hands
\* to SpawnTile is for a tile that is not resident and not queued again.
NoRedundantRequest ==
    /\ \A i, j \in 1..Len(queue_) : i # j => queue_[i].id # queue_[j].id
    /\ loading_ \notin QueuedIds
    /\ \A id \in QueuedIds : ~HoldsTile(id)
    /\ w_pc = "spawn" => (~HoldsTile(w_task.id) /\ w_task.id \notin QueuedIds
                          /\ loading_ = w_task.id)

\* the loading thread starts SpawnTile for a task while other tasks wait, in
\* a tree that holds a tile already and has been collected
NoRedundantRequestWitness ==
    /\ w_pc = "spawn"
    /\ queue_ # <<>>
    /\ Resident > 0
    /\ generation_ > 0

====
